---- MODULE Spec2Model ----
(***************************************************************************)
(* Model of computeSales.py: load two JSON documents, validate each into   *)
(* a clean structure, join and sum.                                        *)
(*                                                                         *)
(* Decoded JSON values are records [k, s, n]: k is the Python type of the  *)
(* decoded value, s its text (for str) and n its number (for int, float    *)
(* and bool; floats of the model are whole-valued, 2.0 is n = 2).          *)
(* A printed line is a record [text, index, name]: the template of the     *)
(* f-string and the values substituted into it.                            *)
(***************************************************************************)
EXTENDS Integers, Sequences, FiniteSets

VARIABLES pc, catFile, salesFile, price_catalog, extracted_prices,
          sales_records, extracted_sales, total, console, log

vars == <<pc, catFile, salesFile, price_catalog, extracted_prices,
          sales_records, extracted_sales, total, console, log>>

\* ------------------------------------------------------------------ bounds
\* longest raw document handed to a validator on its own
MaxLen == 2
\* longest document of well-formed records for the aggregation runs
MaxClean == 2
\* longest document read from a file by main
MaxMainLen == 2

\* ------------------------------------------------------- decoded JSON values
Absent == [k |-> "absent", s |-> "", n |-> 0]
JNull == [k |-> "NoneType", s |-> "", n |-> 0]
JBool(b) == [k |-> "bool", s |-> "", n |-> IF b THEN 1 ELSE 0]
JInt(i) == [k |-> "int", s |-> "", n |-> i]
JFloat(i) == [k |-> "float", s |-> "", n |-> i]
JStr(t) == [k |-> "str", s |-> t, n |-> 0]
JList == [k |-> "list", s |-> "", n |-> 0]
JDict == [k |-> "dict", s |-> "", n |-> 0]

\* Python's class hierarchy for the decoded types: bool is a subclass of int
Mro(k) == IF k = "bool" THEN {"bool", "int"} ELSE {k}

isinstance(v, types) == Mro(v.k) \cap types # {}

\* `key in item` for a decoded object
HasKey(item, key) == item[key] # Absent

\* a catalog element: an object with (possibly absent) title and price, or a
\* value of another type
CatalogRecord(title, price) == [k |-> "dict", title |-> title, price |-> price]
CatalogOther(k) == [k |-> k, title |-> Absent, price |-> Absent]

\* a sales element
SaleRecord(product, quantity) ==
  [k |-> "dict", Product |-> product, Quantity |-> quantity]
SaleOther(k) == [k |-> k, Product |-> Absent, Quantity |-> Absent]

\* a decoded top-level document: a list of elements, or a value of another type
ListDoc(items) == [k |-> "list", items |-> items]
OtherDoc(k) == [k |-> k, items |-> <<>>]
None == OtherDoc("NoneType")
NonListKinds == {"dict", "str", "int", "float", "bool", "NoneType"}
NonListDocs == {OtherDoc(k) : k \in NonListKinds}

\* ------------------------------------------------------------ printed lines
Line(text, index, name) == [text |-> text, index |-> index, name |-> name]

NotFoundLine(filename) == Line("Error: File '{filename}' not found.", 0, filename)
NotJsonLine(filename) ==
  Line("Error: File '{filename}' is not a valid JSON.", 0, filename)
CatalogFormatLine == Line("Error: Price catalog format is invalid", 0, "")
SalesFormatLine == Line("Error: Sales records format is invalid", 0, "")
ExitingLine == Line("Exiting", 0, "")
TotalLine(t) == Line("\nTotal Sales: ${total:,.2f}", t, "")
NotInCatalogLine(product) ==
  Line("Warning: Sold product '{product}' not in catalog.\n\tSale of item(s) will not be included in calculation",
       0, product)

CatalogTail == "\n\tProduct will not be included in calculations."
SalesTail == "\n\tSale of item(s) will not be included in calculation"
InvalidFormat == "Warning: Invalid format at index {index}."
MissingTitle == "Warning: Missing title at index {index}."
MissingPrice == "Warning: Missing price at index {index}."
MissingProduct == "Warning: Missing product at index {index}."
MissingQuantity == "Warning: Missing quantity at index {index}."

\* the ValidationError raised for an element: its message and the index in it
ValidationError(message, tail, index) ==
  [raised |-> TRUE, message |-> message, tail |-> tail, index |-> index]
NoError == [raised |-> FALSE, message |-> "", tail |-> "", index |-> 0]

\* print(f"Error: {e}")
ErrorLine(e) == Line(e.message, e.index, e.tail)

\* print(content): one more line on the console
print(out, content) == Append(out, content)

\* print_plus(content, file_handler): the line on the console and in the file
print_plus(sinks, content) ==
  [console |-> Append(sinks.console, content), log |-> Append(sinks.log, content)]

\* ------------------------------------------------------------- load_json
\* a file of the file system: how opening and decoding it ends, and the value
\* it decodes to when it is valid JSON
FailStatuses == {"missing", "denied", "isdir", "notutf8", "badjson"}
File(status, content) == [status |-> status, content |-> content]

\* the exception open() or json.load() raises for a file, "" when none
RaisedBy(file) ==
  CASE file.status = "missing" -> "FileNotFoundError"
    [] file.status = "denied" -> "PermissionError"
    [] file.status = "isdir" -> "IsADirectoryError"
    [] file.status = "notutf8" -> "UnicodeDecodeError"
    [] file.status = "badjson" -> "JSONDecodeError"
    [] OTHER -> ""

\* load_json(filename): the value returned, the lines printed and the
\* exception that leaves the function ("" when it returns)
load_json(filename, file) ==
  LET e == RaisedBy(file) IN
  CASE e = "" -> [ret |-> file.content, out |-> <<>>, exc |-> ""]
    [] e = "FileNotFoundError" ->
         [ret |-> None, out |-> <<NotFoundLine(filename)>>, exc |-> ""]
    [] e = "JSONDecodeError" ->
         [ret |-> None, out |-> <<NotJsonLine(filename)>>, exc |-> ""]
    [] OTHER -> [ret |-> None, out |-> <<>>, exc |-> e]

\* ------------------------------------------------- validate_price_catalog
EmptyPrices == [t \in {} |-> Absent]

\* the three checks of one catalog element in a wrong order (price before title)
CatalogItemErrorPriceFirst(item, index) ==
  IF ~isinstance(item, {"dict"})
  THEN ValidationError(InvalidFormat, CatalogTail, index)
  ELSE IF ~HasKey(item, "price") \/ ~isinstance(item.price, {"int", "float"})
  THEN ValidationError(MissingPrice, CatalogTail, index)
  ELSE IF ~HasKey(item, "title") \/ ~isinstance(item.title, {"str"})
  THEN ValidationError(MissingTitle, CatalogTail, index)
  ELSE NoError

\* the three checks of one catalog element, the first failing one raising
CatalogItemError(item, index) ==
  IF ~isinstance(item, {"dict"})
  THEN ValidationError(InvalidFormat, CatalogTail, index)
  ELSE IF ~HasKey(item, "title") \/ ~isinstance(item.title, {"str"})
  THEN ValidationError(MissingTitle, CatalogTail, index)
  ELSE IF ~HasKey(item, "price") \/ ~isinstance(item.price, {"int", "float"})
  THEN ValidationError(MissingPrice, CatalogTail, index)
  ELSE NoError

\* an assignment that keeps the price already stored for the title
StorePriceKeepFirst(extracted, title, price) ==
  [t \in DOMAIN extracted \cup {title} |->
     IF t \in DOMAIN extracted THEN extracted[t] ELSE price]

\* extracted_prices[item["title"]] = item["price"]
StorePrice(extracted, title, price) ==
  [t \in DOMAIN extracted \cup {title} |->
     IF t = title THEN price ELSE extracted[t]]

\* the for loop over enumerate(price_catalog), from position pos (1-based;
\* the index of the source is pos - 1)
RECURSIVE ValidatePriceLoop(_, _, _, _)
ValidatePriceLoop(items, pos, extracted, out) ==
  IF pos > Len(items) THEN [ret |-> extracted, out |-> out]
  ELSE LET item == items[pos]
           e == CatalogItemError(item, pos - 1)
       IN IF e.raised
          THEN ValidatePriceLoop(items, pos + 1, extracted, print(out, ErrorLine(e)))
          ELSE ValidatePriceLoop(items, pos + 1,
                                 StorePrice(extracted, item.title.s, item.price), out)

\* a validator that forgets the diagnostic of a document that is not a list
validate_price_catalog_silent(doc) ==
  IF ~isinstance(doc, {"list"})
  THEN [ret |-> EmptyPrices, out |-> <<>>]
  ELSE ValidatePriceLoop(doc.items, 1, EmptyPrices, <<>>)

validate_price_catalog(doc) ==
  IF ~isinstance(doc, {"list"})
  THEN [ret |-> EmptyPrices, out |-> print(<<>>, CatalogFormatLine)]
  ELSE ValidatePriceLoop(doc.items, 1, EmptyPrices, <<>>)

\* ------------------------------------------------- validate_sales_records
\* the three checks of one sales element, the first failing one raising
SaleItemError(sale, index) ==
  IF ~isinstance(sale, {"dict"})
  THEN ValidationError(InvalidFormat, SalesTail, index)
  ELSE IF ~HasKey(sale, "Product") \/ ~isinstance(sale.Product, {"str"})
  THEN ValidationError(MissingProduct, SalesTail, index)
  ELSE IF ~HasKey(sale, "Quantity") \/ ~isinstance(sale.Quantity, {"int"})
  THEN ValidationError(MissingQuantity, SalesTail, index)
  ELSE NoError

\* the for loop over enumerate(sales_records), from position pos
RECURSIVE ValidateSalesLoop(_, _, _, _)
ValidateSalesLoop(items, pos, extracted, out) ==
  IF pos > Len(items) THEN [ret |-> extracted, out |-> out]
  ELSE LET sale == items[pos]
           e == SaleItemError(sale, pos - 1)
       IN IF e.raised
          THEN ValidateSalesLoop(items, pos + 1, extracted, print(out, ErrorLine(e)))
          ELSE ValidateSalesLoop(items, pos + 1,
                                 Append(extracted, <<sale.Product.s, sale.Quantity>>), out)

validate_sales_records(doc) ==
  IF ~isinstance(doc, {"list"})
  THEN [ret |-> <<>>, out |-> print(<<>>, SalesFormatLine)]
  ELSE ValidateSalesLoop(doc.items, 1, <<>>, <<>>)

\* ---------------------------------------------------- compute_total_sales
\* an amount that adds the quantity to the price
SaleAmountSum(price, quantity) == price.n + quantity.n

\* price_catalog[product] * quantity
SaleAmount(price, quantity) == price.n * quantity.n

\* the for loop over sales_records, from position pos
RECURSIVE ComputeLoop(_, _, _, _, _)
ComputeLoop(prices, sales, pos, total_sales, out) ==
  IF pos > Len(sales) THEN [ret |-> total_sales, out |-> out]
  ELSE LET product == sales[pos][1]
           quantity == sales[pos][2]
       IN IF product \in DOMAIN prices
          THEN ComputeLoop(prices, sales, pos + 1,
                           total_sales + SaleAmount(prices[product], quantity), out)
          ELSE ComputeLoop(prices, sales, pos + 1, total_sales,
                           print(out, NotInCatalogLine(product)))

compute_total_sales(prices, sales) == ComputeLoop(prices, sales, 1, 0, <<>>)

\* ------------------------------------------------------------------ inputs
\* all sequences over S of length at most n
SeqsUpTo(S, n) == UNION {[1..m -> S] : m \in 0..n}

\* raw catalog elements: every way a check can pass or fail
TitleValues == {Absent, JInt(7), JStr("A"), JStr("B")}
PriceValues == {Absent, JStr("9"), JNull, JBool(TRUE), JList, JDict,
                JInt(5), JInt(8), JFloat(2)}
CatalogItems ==
  {CatalogRecord(t, p) : t \in TitleValues, p \in PriceValues}
    \cup {CatalogOther("str"), CatalogOther("list")}
CatalogInputs == NonListDocs \cup {ListDoc(q) : q \in SeqsUpTo(CatalogItems, MaxLen)}

\* raw sales elements
ProductValues == {Absent, JInt(7), JStr("A"), JStr("C")}
QuantityValues == {Absent, JStr("2"), JNull, JBool(TRUE), JFloat(2), JInt(2), JInt(3)}
SalesItems ==
  {SaleRecord(p, q) : p \in ProductValues, q \in QuantityValues}
    \cup {SaleOther("str"), SaleOther("list")}
SalesInputs == NonListDocs \cup {ListDoc(q) : q \in SeqsUpTo(SalesItems, MaxLen)}

\* documents of well-formed records only
CleanCatalogItems ==
  {CatalogRecord(JStr("A"), JInt(5)), CatalogRecord(JStr("A"), JInt(8)),
   CatalogRecord(JStr("B"), JFloat(2))}
CleanCatalogs == {ListDoc(q) : q \in SeqsUpTo(CleanCatalogItems, MaxClean)}
CleanSalesItems ==
  {SaleRecord(JStr(p), JInt(q)) : p \in {"A", "B", "C"}, q \in {-1, 2, 3}}
CleanSales == {ListDoc(q) : q \in SeqsUpTo(CleanSalesItems, MaxClean)}

DefaultCatalog == ListDoc(<<CatalogRecord(JStr("A"), JInt(5))>>)
DefaultSales == ListDoc(<<SaleRecord(JStr("A"), JInt(2))>>)

\* the pairs of decoded documents the functions are applied to
FnInputs ==
  (CatalogInputs \X {DefaultSales}) \cup ({DefaultCatalog} \X SalesInputs)
    \cup (NonListDocs \X NonListDocs) \cup (CleanCatalogs \X CleanSales)

\* the files main is run on
CatalogName == "catalog.json"
SalesName == "sales.json"
MainCatalogItems ==
  {CatalogRecord(JStr("A"), JInt(5)), CatalogRecord(JStr("A"), JInt(8)),
   CatalogRecord(Absent, JInt(5))}
MainSalesItems ==
  {SaleRecord(JStr("A"), JInt(2)), SaleRecord(JStr("B"), JInt(1)), SaleOther("str")}
FilesOf(items) ==
  {File(st, None) : st \in FailStatuses}
    \cup {File("ok", d) : d \in NonListDocs}
    \cup {File("ok", ListDoc(q)) : q \in SeqsUpTo(items, MaxMainLen)}
NoFile == File("missing", None)

\* ------------------------------------------------------------------- main
\* the program started on two files: nothing assigned, nothing printed
Init ==
  /\ pc = "load_catalog"
  /\ catFile \in FilesOf(MainCatalogItems)
  /\ salesFile \in FilesOf(MainSalesItems)
  /\ price_catalog = None
  /\ extracted_prices = EmptyPrices
  /\ sales_records = None
  /\ extracted_sales = <<>>
  /\ total = 0
  /\ console = <<>>
  /\ log = <<>>

\* price_catalog = load_json(args.price_catalog); if None: print Exiting, return
LoadCatalog ==
  /\ pc = "load_catalog"
  /\ LET r == load_json(CatalogName, catFile) IN
       IF r.exc # ""
       THEN /\ pc' = "crashed"
            /\ console' = console \o r.out
            /\ UNCHANGED price_catalog
       ELSE /\ price_catalog' = r.ret
            /\ IF r.ret = None
               THEN /\ console' = print(console \o r.out, ExitingLine)
                    /\ pc' = "done"
               ELSE /\ console' = console \o r.out
                    /\ pc' = "validate_catalog"
  /\ UNCHANGED <<catFile, salesFile, extracted_prices, sales_records,
                 extracted_sales, total, log>>

\* extracted_prices = validate_price_catalog(price_catalog)
ValidateCatalog ==
  /\ pc = "validate_catalog"
  /\ LET r == validate_price_catalog(price_catalog) IN
       /\ extracted_prices' = r.ret
       /\ console' = console \o r.out
  /\ pc' = "load_sales"
  /\ UNCHANGED <<catFile, salesFile, price_catalog, sales_records,
                 extracted_sales, total, log>>

\* sales_records = load_json(args.sales_records); if None: print Exiting, return
LoadSales ==
  /\ pc = "load_sales"
  /\ LET r == load_json(SalesName, salesFile) IN
       IF r.exc # ""
       THEN /\ pc' = "crashed"
            /\ console' = console \o r.out
            /\ UNCHANGED sales_records
       ELSE /\ sales_records' = r.ret
            /\ IF r.ret = None
               THEN /\ console' = print(console \o r.out, ExitingLine)
                    /\ pc' = "done"
               ELSE /\ console' = console \o r.out
                    /\ pc' = "validate_sales"
  /\ UNCHANGED <<catFile, salesFile, price_catalog, extracted_prices,
                 extracted_sales, total, log>>

\* extracted_sales = validate_sales_records(sales_records)
ValidateSales ==
  /\ pc = "validate_sales"
  /\ LET r == validate_sales_records(sales_records) IN
       /\ extracted_sales' = r.ret
       /\ console' = console \o r.out
  /\ pc' = "aggregate"
  /\ UNCHANGED <<catFile, salesFile, price_catalog, extracted_prices,
                 sales_records, total, log>>

\* total = compute_total_sales(extracted_prices, extracted_sales)
Aggregate ==
  /\ pc = "aggregate"
  /\ LET r == compute_total_sales(extracted_prices, extracted_sales) IN
       /\ total' = r.ret
       /\ console' = console \o r.out
  /\ pc' = "print_total"
  /\ UNCHANGED <<catFile, salesFile, price_catalog, extracted_prices,
                 sales_records, extracted_sales, log>>

\* print(f"\nTotal Sales: ${total:,.2f}") and the end of main
PrintTotal ==
  /\ pc = "print_total"
  /\ console' = print(console, TotalLine(total))
  /\ pc' = "done"
  /\ UNCHANGED <<catFile, salesFile, price_catalog, extracted_prices,
                 sales_records, extracted_sales, total, log>>

Next ==
  \/ LoadCatalog
  \/ ValidateCatalog
  \/ LoadSales
  \/ ValidateSales
  \/ Aggregate
  \/ PrintTotal

Spec == Init /\ [][Next]_vars

\* main is one sequential thread: it takes its next step whenever it has one
FairSpec == Spec /\ WF_vars(Next)

\* ------------------------------------------- the functions called directly
\* the validators and the aggregator applied in turn to a pair of decoded
\* documents, as a caller of the module would
FnInit ==
  /\ pc = "fn_validate_catalog"
  /\ \E input \in FnInputs :
       /\ price_catalog = input[1]
       /\ sales_records = input[2]
  /\ catFile = NoFile
  /\ salesFile = NoFile
  /\ extracted_prices = EmptyPrices
  /\ extracted_sales = <<>>
  /\ total = 0
  /\ console = <<>>
  /\ log = <<>>

FnValidatePriceCatalog ==
  /\ pc = "fn_validate_catalog"
  /\ LET r == validate_price_catalog(price_catalog) IN
       /\ extracted_prices' = r.ret
       /\ console' = console \o r.out
  /\ pc' = "fn_validate_sales"
  /\ UNCHANGED <<catFile, salesFile, price_catalog, sales_records,
                 extracted_sales, total, log>>

FnValidateSalesRecords ==
  /\ pc = "fn_validate_sales"
  /\ LET r == validate_sales_records(sales_records) IN
       /\ extracted_sales' = r.ret
       /\ console' = console \o r.out
  /\ pc' = "fn_compute"
  /\ UNCHANGED <<catFile, salesFile, price_catalog, extracted_prices,
                 sales_records, total, log>>

FnComputeTotalSales ==
  /\ pc = "fn_compute"
  /\ LET r == compute_total_sales(extracted_prices, extracted_sales) IN
       /\ total' = r.ret
       /\ console' = console \o r.out
  /\ pc' = "fn_returned"
  /\ UNCHANGED <<catFile, salesFile, price_catalog, extracted_prices,
                 sales_records, extracted_sales, log>>

FnNext ==
  \/ FnValidatePriceCatalog
  \/ FnValidateSalesRecords
  \/ FnComputeTotalSales

SpecFn == FnInit /\ [][FnNext]_vars

\* ============================================================ properties
Max(S) == CHOOSE x \in S : \A y \in S : y <= x

RECURSIVE Sigma(_, _)
\* the sum of f over the finite set S of its arguments
Sigma(f, S) ==
  IF S = {} THEN 0
  ELSE LET x == CHOOSE y \in S : TRUE IN f[x] + Sigma(f, S \ {x})

\* the positions of the console that hold a line with this text
LinesWith(text) == {j \in DOMAIN console : console[j].text = text}

\* the positions of the console where the catalog validator reported element i
\* (1-based position i, 0-based index i - 1 in the message)
CatalogDiag(i) ==
  {j \in DOMAIN console : console[j].name = CatalogTail /\ console[j].index = i - 1}

AfterCatalog == pc \in {"fn_validate_sales", "fn_compute", "fn_returned"}
AfterSales == pc \in {"fn_compute", "fn_returned"}

\* ---- C1
\* C1: compute_total_sales returns the sum of catalog[product] * quantity over
\* the pairs whose product is a key of the catalog, and prints one 'not in
\* catalog' warning for each pair (with repetition) whose product is no key.
C1_TotalIsSumOfMatched ==
  pc = "fn_returned" =>
    LET hit == {i \in DOMAIN extracted_sales :
                  extracted_sales[i][1] \in DOMAIN extracted_prices}
        miss == DOMAIN extracted_sales \ hit
        amount == [i \in hit |->
                     extracted_prices[extracted_sales[i][1]].n * extracted_sales[i][2].n]
        warned == LinesWith(NotInCatalogLine("").text)
    IN /\ total = Sigma(amount, hit)
       /\ Cardinality(warned) = Cardinality(miss)
       /\ \A p \in {extracted_sales[i][1] : i \in miss} :
            Cardinality({j \in warned : console[j].name = p})
              = Cardinality({i \in miss : extracted_sales[i][1] = p})

C1_Witness ==
  /\ pc = "fn_returned"
  /\ Len(extracted_sales) = 2
  /\ extracted_sales[1][1] \in DOMAIN extracted_prices
  /\ extracted_sales[2][1] \notin DOMAIN extracted_prices
  /\ total = 16
  /\ Cardinality(LinesWith(NotInCatalogLine("").text)) = 1

\* ---- C2
\* C2: an element whose price is absent or not a number (string, null, boolean,
\* list, object) contributes no entry: every entry of the returned mapping
\* comes from an element whose price is an integer or a floating-point number.
C2_NonNumericPriceExcluded ==
  (pc = "fn_validate_sales" /\ price_catalog.k = "list") =>
    \A t \in DOMAIN extracted_prices :
      \E i \in DOMAIN price_catalog.items :
        LET item == price_catalog.items[i] IN
          /\ item.k = "dict"
          /\ item.title = JStr(t)
          /\ item.price = extracted_prices[t]
          /\ item.price.k \in {"int", "float"}

\* ---- C3
\* the pairs of the elements that are records with a text Product and an
\* integer Quantity (a boolean is not an integer), in input order
ExpectedSales(doc) ==
  LET ok == SelectSeq(doc.items,
                      LAMBDA e : /\ e.k = "dict"
                                 /\ e.Product.k = "str"
                                 /\ e.Quantity.k = "int")
  IN [i \in 1..Len(ok) |-> <<ok[i].Product.s, ok[i].Quantity>>]

\* C3: validate_sales_records returns exactly the input-order subsequence of
\* the (Product, Quantity) pairs of the records with a text Product and an
\* integer Quantity; a float or boolean Quantity is excluded, duplicates stay.
C3_SalesAreTheWellTypedPairs ==
  AfterSales => extracted_sales = ExpectedSales(sales_records)

\* ---- C4
\* C4: every line written to the console is written to the log file as well:
\* the two sequences of lines are equal in every state.
C4_LogEqualsConsole == log = console

\* ---- C5
\* C5: no exception leaves main: whatever opening and decoding the documents
\* does, main ends after printing 'Exiting' or after printing the total.
C5_NoUnhandledException ==
  /\ pc # "crashed"
  /\ pc = "done" =>
       /\ console # <<>>
       /\ \/ console[Len(console)] = ExitingLine
          \/ console[Len(console)] = TotalLine(total)

\* ---- C6
C6_Order ==
  /\ pc \in {"load_sales", "validate_sales", "aggregate", "print_total"}
       => price_catalog # None
  /\ Cardinality(LinesWith(TotalLine(0).text)) <= 1
  /\ LinesWith(TotalLine(0).text) # {} =>
       /\ catFile.status = "ok"
       /\ salesFile.status = "ok"
       /\ pc = "done"
  /\ LinesWith(ExitingLine.text) # {} =>
       /\ console[Len(console)] = ExitingLine
       /\ pc = "done"

\* C6: every run goes LOADING_CATALOG -> LOADING_SALES -> AGGREGATING -> DONE,
\* a load failure going directly to DONE: sales are loaded only after the
\* catalog, the total is printed once and only after two successful loads,
\* nothing happens after 'Exiting', and every run reaches DONE.
C6_RunReachesDone == [](C6_Order) /\ <>(pc = "done")

\* ---- C10
\* C10: 'Exiting' is printed only right after load_json printed the not-found
\* or invalid-JSON diagnostic of that file; a file that holds valid JSON of any
\* shape, null included, goes on to its validator and never ends the run early.
C10_ExitOnlyAfterLoadDiagnostic ==
  /\ \A j \in LinesWith(ExitingLine.text) :
       /\ j > 1
       /\ console[j - 1] \in {NotFoundLine(CatalogName), NotJsonLine(CatalogName),
                              NotFoundLine(SalesName), NotJsonLine(SalesName)}
  /\ (catFile.status = "ok" /\ salesFile.status = "ok")
       => LinesWith(ExitingLine.text) = {}

\* ---- C7
\* the diagnostic the ordered checks give a catalog element: "" when no check
\* fails on a missing key or on a value that is no text / no number
FirstFailing(item) ==
  IF item.k # "dict" THEN InvalidFormat
  ELSE IF item.title.k # "str" THEN MissingTitle
  ELSE IF item.price.k \in {"absent", "str", "NoneType", "list", "dict"}
  THEN MissingPrice
  ELSE ""

\* C7: validate_price_catalog checks each element in the order record, title,
\* price and stops at the first failing check: at most one diagnostic per
\* element, it is the one of the first failing check and names the 0-based
\* index, an element has a diagnostic exactly when it is left out of the
\* mapping, and the elements after a failing one are still processed.
C7_FirstFailingCheckDecides ==
  (pc = "fn_validate_sales" /\ price_catalog.k = "list") =>
    LET items == price_catalog.items IN
      /\ \A i \in DOMAIN items : Cardinality(CatalogDiag(i)) <= 1
      /\ \A i \in DOMAIN items :
           FirstFailing(items[i]) # "" =>
             \E j \in CatalogDiag(i) :
               console[j] = Line(FirstFailing(items[i]), i - 1, CatalogTail)
      /\ \A j \in DOMAIN console :
           /\ console[j].index + 1 \in DOMAIN items
           /\ j \in CatalogDiag(console[j].index + 1)
           /\ \A h \in DOMAIN console : h < j => console[h].index < console[j].index
      /\ DOMAIN extracted_prices =
           {items[i].title.s : i \in {h \in DOMAIN items : CatalogDiag(h) = {}}}
      /\ \A i \in DOMAIN items :
           CatalogDiag(i) = {} => items[i].title.k = "str"

C7_Witness ==
  /\ pc = "fn_validate_sales"
  /\ price_catalog = ListDoc(<<CatalogRecord(Absent, Absent),
                               CatalogRecord(JStr("A"), JInt(5))>>)
  /\ console = <<Line(MissingTitle, 0, CatalogTail)>>
  /\ DOMAIN extracted_prices = {"A"}

\* ---- C8
\* the positions of the catalog elements with this title that passed the checks
Passed(t) ==
  {i \in DOMAIN price_catalog.items :
     /\ CatalogDiag(i) = {}
     /\ price_catalog.items[i].title = JStr(t)}

\* C8: each key of the returned mapping maps to the price of the highest-index
\* element that passed all three checks with that title, and the total is
\* computed with that price (A:5 then A:8 with a sale of 2 A gives 16).
C8_LastWriteWins ==
  (AfterCatalog /\ price_catalog.k = "list") =>
    /\ \A t \in DOMAIN extracted_prices :
         /\ Passed(t) # {}
         /\ extracted_prices[t] = price_catalog.items[Max(Passed(t))].price
    /\ (pc = "fn_returned" /\ Len(extracted_sales) = 1
          /\ extracted_sales[1][1] \in DOMAIN extracted_prices) =>
         total = price_catalog.items[Max(Passed(extracted_sales[1][1]))].price.n
                   * extracted_sales[1][2].n

C8_Witness ==
  /\ pc = "fn_returned"
  /\ price_catalog = ListDoc(<<CatalogRecord(JStr("A"), JInt(5)),
                               CatalogRecord(JStr("A"), JInt(8))>>)
  /\ extracted_sales = <<<<"A", JInt(2)>>>>
  /\ extracted_prices["A"] = JInt(8)
  /\ total = 16

\* ---- C9
\* C9: for a top-level value that is not a list (object, string, number,
\* boolean, null) validate_price_catalog returns an empty mapping and
\* validate_sales_records an empty sequence, and each prints exactly one
\* diagnostic and no per-element warning.
C9_NonListGivesEmptyAndOneDiagnostic ==
  [][/\ (pc = "fn_validate_catalog" /\ price_catalog.k # "list") =>
          /\ extracted_prices' = EmptyPrices
          /\ console' = Append(console, CatalogFormatLine)
     /\ (pc = "fn_validate_sales" /\ sales_records.k # "list") =>
          /\ extracted_sales' = <<>>
          /\ console' = Append(console, SalesFormatLine)]_vars

C9_Witness ==
  /\ pc = "fn_compute"
  /\ price_catalog = None
  /\ sales_records = OtherDoc("dict")
  /\ extracted_prices = EmptyPrices
  /\ extracted_sales = <<>>
  /\ console = <<CatalogFormatLine, SalesFormatLine>>

====
